---- MODULE Spec2Model ----
(***************************************************************************)
(* The LDA class of LDA_with_Grid.py as a state machine.                   *)
(*                                                                         *)
(* The state is the fields of one LDA object, the behaviour of the topic   *)
(* model library on the object's fixed corpus, and the outcome of the last *)
(* method call.  One action per public method.  The library calls          *)
(* (gensim.models.LdaModel, CoherenceModel, LdaSeqModel, pyLDAvis) are      *)
(* external: a fit with a given parameter triple either raises or yields   *)
(* a coherence score, the same one every time (random_state = 66).         *)
(*                                                                         *)
(* Reals are scaled to integers: a coherence score is a rank 0..MaxCoh, a  *)
(* density (alpha, beta) is a small positive integer.  perplexity_score is *)
(* carried in the trial records next to coherence_score and read by no     *)
(* decision of the program; the records of the model leave it out.         *)
(* Python's None is the empty tuple; a field or return value that may be   *)
(* None or a list is Some(list), so that None and [] stay distinct.        *)
(***************************************************************************)
EXTENDS Integers, Sequences, FiniteSets, TLC

\* ---------------------------------------------------------------- bounds
MaxAxisLen == 2     \* longest n_topics / alphas / betas list of a grid
MaxCoh == 1         \* coherence scores are the ranks 0..MaxCoh
MaxDocs == 3        \* longest date sequence (time slicer inputs)
MaxBatches == 2     \* most year batches in one call

\* ------------------------------------------------------- values and inputs
None == <<>>
Some(v) == <<v>>
\* raise Exception('No ... found. ...'): the prerequisite step has not run
NotConfigured == "Exception"

TopicVals == {2, 3}
AlphaVals == {1, 2}
BetaVals == {1, 2}
Params == TopicVals \X AlphaVals \X BetaVals

SeqsUpTo(S, n) == UNION {[1..k -> S] : k \in 0..n}
\* lists without repeated entries, in any order
ListsUpTo(S, n) == {s \in SeqsUpTo(S, n) :
                       \A i, j \in DOMAIN s : i # j => s[i] # s[j]}

\* what the library does with one parameter triple on this corpus
Outcomes == {[ok |-> FALSE, coherence |-> 0]} \cup
            {[ok |-> TRUE, coherence |-> c] : c \in 0..MaxCoh}
\* corpora on which the outcome depends on one hyperparameter alone
AxisFitters(axes) ==
    {[p \in Params |-> g[p[a]]] :
        a \in axes, g \in [TopicVals \cup AlphaVals \cup BetaVals -> Outcomes]}

Years == {2000, 2001, 2002}
ExampleDates == <<<<2000>>, <<2000>>, <<2002>>, <<2005>>>>
ExampleBatches == <<<<2000, 2001>>, <<2002, 2003>>>>
DateSeqs == SeqsUpTo({<<y>> : y \in Years}, MaxDocs) \cup {ExampleDates}
\* year batches: empty, overlapping, unordered
Batches == {<<>>, <<2000, 2001>>, <<2001, 2002>>, <<2002, 2000>>}
BatchLists == SeqsUpTo(Batches, MaxBatches) \cup {ExampleBatches}

Range(s) == {s[i] : i \in DOMAIN s}

VARIABLES
    fitter,        \* the library on (corpus, dictionary, texts): Params -> outcome
    dates,         \* self.dates: one item per document, item[0] its year
    simple_model,  \* self.simple_model
    best_params,   \* self.best_params
    best_score,    \* self.best_score
    best_model,    \* self.best_model
    time_slice,    \* self.time_slice: None or Some(list)
    scores,        \* self.scores (created by the first grid_search)
    dtm_file,      \* LDAModels_Gensim/DTM_model.gensim: None or Some(model)
    result         \* the last call: op, args, ret, raised, fits, writes

vars == <<fitter, dates, simple_model, best_params, best_score, best_model,
          time_slice, scores, dtm_file, result>>

\* the working directory holds no saved sequential model yet
NewDirectory == dtm_file = None

\* ------------------------------------------------------------- __init__
NewObject ==
    /\ simple_model = None
    /\ best_params = None
    /\ best_score = -1
    /\ best_model = None
    /\ time_slice = None
    /\ scores = <<>>
    /\ result = [op |-> "__init__", args |-> <<>>, ret |-> None, raised |-> "",
                 fits |-> 0, writes |-> <<>>]

\* ------------------------------------------------- get_coherence_score
\* The fitted model is determined by its parameters (fixed corpus and seed).
LdaModel(n, alpha, beta) == <<n, alpha, beta>>
get_coherence_score(n, alpha, beta) ==
    [ok |-> fitter[<<n, alpha, beta>>].ok,
     coherence |-> fitter[<<n, alpha, beta>>].coherence,
     model |-> LdaModel(n, alpha, beta)]
print_topics(model) == <<"topics", model>>

\* ---------------------------------------------------------- grid_search
RECURSIVE Flatten(_)
Flatten(ss) == IF ss = <<>> THEN <<>> ELSE Head(ss) \o Flatten(Tail(ss))

\* the three nested for loops: the triples in the order the body sees them
GridOrderBetaOuter(n_topics, alphas, betas) ==
    Flatten([k \in 1..Len(betas) |->
        Flatten([j \in 1..Len(alphas) |->
            [i \in 1..Len(n_topics) |-> <<n_topics[i], alphas[j], betas[k]>>]])])
GridOrder(n_topics, alphas, betas) ==
    Flatten([i \in 1..Len(n_topics) |->
        Flatten([j \in 1..Len(alphas) |->
            [k \in 1..Len(betas) |-> <<n_topics[i], alphas[j], betas[k]>>]])])

\* the best-trial update of one iteration
BestUpdateNoModel(s, p, coherence_score, model) ==
    IF coherence_score > s.best_score
    THEN [s EXCEPT !.best_score = coherence_score, !.best_params = p]
    ELSE s
BestUpdate(s, p, coherence_score, model) ==
    IF coherence_score > s.best_score
    THEN [s EXCEPT !.best_score = coherence_score, !.best_params = p,
                   !.best_model = model]
    ELSE s

\* one iteration of the loop body; a failing fit raises out of the loop
TrialStep(s, p) ==
    LET fit == get_coherence_score(p[1], p[2], p[3]) IN
    IF ~fit.ok
    THEN [s EXCEPT !.fits = @ + 1, !.raised = "LibraryError"]
    ELSE BestUpdate(
           [s EXCEPT !.fits = @ + 1,
                     !.scores = Append(@, [n_topics |-> p[1], alpha |-> p[2],
                                           beta |-> p[3],
                                           coherence_score |-> fit.coherence])],
           p, fit.coherence, fit.model)

RECURSIVE RunTrials(_, _)
RunTrials(order, s) ==
    IF order = <<>> \/ s.raised # "" THEN s
    ELSE RunTrials(Tail(order), TrialStep(s, Head(order)))

ScoresCsv == "Topics_CSVs/scores_from_search.csv"

grid_search(n_topics, alphas, betas) ==
    LET s0 == [scores |-> <<>>, best_score |-> best_score,
               best_params |-> best_params, best_model |-> best_model,
               fits |-> 0, raised |-> ""]
        s == RunTrials(GridOrder(n_topics, alphas, betas), s0)
    IN /\ scores' = s.scores
       /\ best_score' = s.best_score
       /\ best_params' = s.best_params
       /\ best_model' = s.best_model
       /\ result' = [op |-> "grid_search",
                     args |-> <<n_topics, alphas, betas>>,
                     ret |-> None,
                     raised |-> s.raised,
                     fits |-> s.fits,
                     writes |-> IF s.raised = "" THEN <<<<ScoresCsv, s.scores>>>>
                                ELSE <<>>]
       /\ UNCHANGED <<fitter, dates, dtm_file, simple_model, time_slice>>

\* ------------------------------------------------------------ simple_fit
SimpleTopicsCsv == "Topics_CSVs/Topics_from_simple_model.csv"
SimpleModelFile == "LDAModels_Gensim/MSc_LDA_simple.gensim"

simple_fit(n_top, alpha_val, beta_val) ==
    LET model == LdaModel(n_top, alpha_val, beta_val)
        ok == fitter[<<n_top, alpha_val, beta_val>>].ok
    IN /\ simple_model' = IF ok THEN model ELSE simple_model
       /\ result' = [op |-> "simple_fit",
                     args |-> <<n_top, alpha_val, beta_val>>,
                     ret |-> IF ok THEN Some(model) ELSE None,
                     raised |-> IF ok THEN "" ELSE "LibraryError",
                     fits |-> 1,
                     writes |-> IF ok
                                THEN <<<<SimpleTopicsCsv, print_topics(model)>>,
                                       <<SimpleModelFile, model>>>>
                                ELSE <<>>]
       /\ UNCHANGED <<fitter, dates, dtm_file, best_params, best_score, best_model,
                      time_slice, scores>>

\* ------------------------------------------------------ build_best_model
BestModelFile == "LDAModels_Gensim/Grid_Best_MSc_LDA.gensim"
BestTopicsCsv == "Topics_CSVs/best_topics.csv"

\* the model file, then the header row and one row per topic
BestWrites(model) ==
    <<<<BestModelFile, model>>,
      <<BestTopicsCsv, <<"Topic N", "Keywords">>, print_topics(model)>>>>

\* the body of the method from the unpacking of best_params on
BuildFromSwapped(params) ==
    LET fit == get_coherence_score(params[1], params[3], params[2]) IN
    IF fit.ok
    THEN [ret |-> Some(fit.model), raised |-> "", fits |-> 1,
          writes |-> BestWrites(fit.model)]
    ELSE [ret |-> None, raised |-> "LibraryError", fits |-> 1, writes |-> <<>>]
BuildFrom(params) ==
    LET fit == get_coherence_score(params[1], params[2], params[3]) IN
    IF fit.ok
    THEN [ret |-> Some(fit.model), raised |-> "", fits |-> 1,
          writes |-> BestWrites(fit.model)]
    ELSE [ret |-> None, raised |-> "LibraryError", fits |-> 1, writes |-> <<>>]

\* `if self.best_params:`
Truthy(params) == params # None

build_best_model_unguarded ==
    LET r == IF best_params # None THEN BuildFrom(best_params)
             ELSE [ret |-> None, raised |-> "TypeError", fits |-> 0,
                   writes |-> <<>>]
    IN /\ result' = [op |-> "build_best_model", args |-> <<>>, ret |-> r.ret,
                     raised |-> r.raised, fits |-> r.fits, writes |-> r.writes]
       /\ UNCHANGED <<fitter, dates, dtm_file, simple_model, best_params, best_score,
                      best_model, time_slice, scores>>
build_best_model ==
    LET r == IF Truthy(best_params) THEN BuildFrom(best_params)
             ELSE [ret |-> None, raised |-> NotConfigured, fits |-> 0,
                   writes |-> <<>>]
    IN /\ result' = [op |-> "build_best_model", args |-> <<>>, ret |-> r.ret,
                     raised |-> r.raised, fits |-> r.fits, writes |-> r.writes]
       /\ UNCHANGED <<fitter, dates, dtm_file, simple_model, best_params, best_score,
                      best_model, time_slice, scores>>

\* ------------------------------------------------------------------- viz
HtmlPath(model_type) == "Plots/lda_" \o model_type \o "_viz.html"
prepare(model) == <<"vis", model>>

\* the selector: the model to show, or the exception raised
SelectModelBestOnly(model_type) ==
    IF model_type = "best" \/ model_type = "simple"
    THEN [model |-> best_model,
          raised |-> IF best_model = None THEN NotConfigured ELSE ""]
    ELSE [model |-> None, raised |-> "ValueError"]
SelectModel(model_type) ==
    IF model_type = "best"
    THEN [model |-> best_model,
          raised |-> IF best_model = None THEN NotConfigured ELSE ""]
    ELSE IF model_type = "simple"
    THEN [model |-> simple_model,
          raised |-> IF simple_model = None THEN NotConfigured ELSE ""]
    ELSE [model |-> None, raised |-> "ValueError"]

viz(model_type) ==
    LET sel == SelectModel(model_type) IN
    /\ result' = [op |-> "viz", args |-> model_type,
                  ret |-> IF sel.raised = "" THEN Some(prepare(sel.model))
                          ELSE None,
                  raised |-> sel.raised,
                  fits |-> 0,
                  writes |-> IF sel.raised = ""
                             THEN <<<<HtmlPath(model_type), prepare(sel.model)>>>>
                             ELSE <<>>]
    /\ UNCHANGED <<fitter, dates, dtm_file, simple_model, best_params, best_score,
                   best_model, time_slice, scores>>

\* ----------------------------------------------------------- time_slicer
\* year_counts: the distinct years in order of first appearance, and the
\* number of documents of each
RECURSIVE YearCounts(_, _)
YearCounts(ds, yc) ==
    IF ds = <<>> THEN yc
    ELSE LET year == Head(ds)[1] IN
         YearCounts(Tail(ds),
            IF year \in Range(yc.keys)
            THEN [yc EXCEPT !.count[year] = @ + 1]
            ELSE [keys |-> Append(yc.keys, year),
                  count |-> [y \in Range(yc.keys) \cup {year} |->
                                IF y = year THEN 1 ELSE yc.count[y]]])

\* the inner loop over the batches for one (key, value) item of year_counts
AddYearFirstBatch(batches_counts, year_batches, key, value) ==
    [index \in DOMAIN batches_counts |->
        IF /\ key \in Range(year_batches[index])
           /\ \A i \in 1..(index - 1) : key \notin Range(year_batches[i])
        THEN batches_counts[index] + value
        ELSE batches_counts[index]]
AddYear(batches_counts, year_batches, key, value) ==
    [index \in DOMAIN batches_counts |->
        IF key \in Range(year_batches[index])
        THEN batches_counts[index] + value
        ELSE batches_counts[index]]

RECURSIVE BatchesCounts(_, _, _, _)
BatchesCounts(keys, count, year_batches, batches_counts) ==
    IF keys = <<>> THEN batches_counts
    ELSE BatchesCounts(Tail(keys), count, year_batches,
            AddYear(batches_counts, year_batches, Head(keys), count[Head(keys)]))

TimeSlices(ds, year_batches) ==
    LET year_counts == YearCounts(ds, [keys |-> <<>>, count |-> <<>>])
    IN BatchesCounts(year_counts.keys, year_counts.count, year_batches,
                     [index \in 1..Len(year_batches) |-> 0])

time_slicer(year_batches) ==
    LET slices == TimeSlices(dates, year_batches) IN
    /\ time_slice' = Some(slices)
    /\ result' = [op |-> "time_slicer", args |-> year_batches,
                  ret |-> Some(slices), raised |-> "", fits |-> 0,
                  writes |-> <<>>]
    /\ UNCHANGED <<fitter, dates, dtm_file, simple_model, best_params, best_score,
                   best_model, scores>>

\* ------------------------------------------------------------------- DTM
DtmModelFile == "LDAModels_Gensim/DTM_model.gensim"
TopicCsvPath(i) ==
    "Topics_CSVs/topics_words_time/topic" \o ToString(i) \o "_words_time.csv"

\* the sequential model is determined by what it is built from
LdaSeqModel(slices, num_topics, alphas, lda_model) ==
    <<"ldaseq", slices, num_topics, alphas, lda_model>>
\* one (word, weight) list per time slice of the model
print_topic_times(seq_m, topic) ==
    [t \in 1..Len(seq_m[2]) |-> <<seq_m, topic, t>>]
\* f'{period[0]}-{period[-1]}'
PeriodLabel(period) == <<period[1], period[Len(period)]>>

\* topic_time: pd.concat of no frames raises, and so does a column list of
\* another length than the table's period columns
TopicTimeFails(DTM_topic, time_periods) ==
    Len(DTM_topic) = 0 \/ Len(DTM_topic) # Len(time_periods)
topic_time(DTM_topic, time_periods) == <<time_periods, DTM_topic>>

\* the slice vector the sequential model is fitted with
DtmSlices(year_batches) == time_slice[1]

\* lib_ok: whether LdaSeqModel accepts the corpus with these slices
DTM(year_batches, lib_ok) ==
    LET n == best_params[1]
        seq_m == LdaSeqModel(DtmSlices(year_batches), n, best_params[2],
                             best_model)
        DTM_topics == [t \in 1..n |-> print_topic_times(seq_m, t - 1)]
        time_periods == [i \in 1..Len(year_batches) |->
                            PeriodLabel(year_batches[i])]
        saved == <<<<DtmModelFile, seq_m>>>>
        r == IF best_params = None
             THEN [raised |-> "TypeError", writes |-> <<>>]
             ELSE IF time_slice = None \/ ~lib_ok
             THEN [raised |-> "LibraryError", writes |-> <<>>]
             ELSE IF \E i \in 1..Len(year_batches) : year_batches[i] = <<>>
             THEN [raised |-> "IndexError", writes |-> saved]
             ELSE IF \E t \in 1..n : TopicTimeFails(DTM_topics[t], time_periods)
             THEN [raised |-> "ValueError", writes |-> saved]
             ELSE [raised |-> "",
                   writes |-> saved \o
                       [t \in 1..n |->
                           <<TopicCsvPath(t),
                             topic_time(DTM_topics[t], time_periods)>>]]
    IN /\ result' = [op |-> "DTM", args |-> year_batches, ret |-> None,
                     raised |-> r.raised, fits |-> 0, writes |-> r.writes]
       /\ dtm_file' = IF r.writes # <<>> THEN Some(seq_m) ELSE dtm_file
       /\ UNCHANGED <<fitter, dates, simple_model, best_params, best_score,
                      best_model, time_slice, scores>>

\* ------------------------------------------------------------ DTM_upload
\* LdaSeqModel.load, then the same export as DTM; the model is not saved again
DTM_upload(year_batches) ==
    LET seq_m == dtm_file[1]
        n == best_params[1]
        DTM_topics == [t \in 1..n |-> print_topic_times(seq_m, t - 1)]
        time_periods == [i \in 1..Len(year_batches) |->
                            PeriodLabel(year_batches[i])]
        r == IF dtm_file = None
             THEN [raised |-> "FileNotFoundError", writes |-> <<>>]
             ELSE IF best_params = None
             THEN [raised |-> "TypeError", writes |-> <<>>]
             ELSE IF n > seq_m[3]      \* no such topic in the loaded model
             THEN [raised |-> "IndexError", writes |-> <<>>]
             ELSE IF \E i \in 1..Len(year_batches) : year_batches[i] = <<>>
             THEN [raised |-> "IndexError", writes |-> <<>>]
             ELSE IF \E t \in 1..n : TopicTimeFails(DTM_topics[t], time_periods)
             THEN [raised |-> "ValueError", writes |-> <<>>]
             ELSE [raised |-> "",
                   writes |-> [t \in 1..n |->
                                  <<TopicCsvPath(t),
                                    topic_time(DTM_topics[t], time_periods)>>]]
    IN /\ result' = [op |-> "DTM_upload", args |-> year_batches,
                     ret |-> IF r.raised = "" THEN Some(seq_m) ELSE None,
                     raised |-> r.raised, fits |-> 0, writes |-> r.writes]
       /\ UNCHANGED <<fitter, dates, dtm_file, simple_model, best_params,
                      best_score, best_model, time_slice, scores>>

\* ------------------------------------------------------- the whole object
ModelTypes == {"best", "simple", "other"}
LifeGrids == ListsUpTo(TopicVals, MaxAxisLen) \X {<<>>, <<1>>} \X {<<2>>}
LifeParams == {<<2, 1, 2>>, <<3, 2, 1>>}
LifeBatches == {ExampleBatches, <<<<2000, 2001>>>>, <<<<2002, 2003>>>>,
                <<>>, <<<<>>>>}

Init == /\ fitter \in AxisFitters({1})
        /\ dates = ExampleDates
        /\ NewObject
        /\ NewDirectory
Next == \/ \E g \in LifeGrids : grid_search(g[1], g[2], g[3])
        \/ \E p \in LifeParams : simple_fit(p[1], p[2], p[3])
        \/ build_best_model
        \/ \E model_type \in ModelTypes : viz(model_type)
        \/ \E year_batches \in LifeBatches : time_slicer(year_batches)
        \/ \E year_batches \in LifeBatches, lib_ok \in BOOLEAN :
               DTM(year_batches, lib_ok)
Spec == Init /\ [][Next]_vars

\* ------------------------------------------ the dynamic model, both ways
NextDtm == \/ \E g \in LifeGrids : grid_search(g[1], g[2], g[3])
           \/ \E year_batches \in LifeBatches : time_slicer(year_batches)
           \/ \E year_batches \in LifeBatches, lib_ok \in BOOLEAN :
                  DTM(year_batches, lib_ok)
           \/ \E year_batches \in LifeBatches : DTM_upload(year_batches)
SpecDtm == Init /\ [][NextDtm]_vars

\* ----------------------------------------------------- time slicer alone
InitSlicer == /\ fitter = [p \in Params |-> [ok |-> TRUE, coherence |-> 0]]
              /\ dates \in DateSeqs
              /\ NewObject
              /\ NewDirectory
NextSlicer == \E year_batches \in BatchLists : time_slicer(year_batches)
SpecSlicer == InitSlicer /\ [][NextSlicer]_vars

\* --------------------------------------------------- grid search alone
Grids == ListsUpTo(TopicVals, MaxAxisLen) \X ListsUpTo(AlphaVals, MaxAxisLen)
             \X ListsUpTo(BetaVals, MaxAxisLen)

InitGrid == /\ fitter \in AxisFitters({1, 2, 3})
            /\ dates = ExampleDates
            /\ NewObject
            /\ NewDirectory
NextGrid == \E g \in Grids : grid_search(g[1], g[2], g[3])
SpecGrid == InitGrid /\ [][NextGrid]_vars

\* ==================================================================== claims
IsGridSearch == result.op = "grid_search"
AxisLens(g) == <<Len(g[1]), Len(g[2]), Len(g[3])>>
GridSize(g) == Len(g[1]) * Len(g[2]) * Len(g[3])
\* the k-th triple of the product, topic count slowest and beta fastest
KthTriple(g, k) ==
    <<g[1][((k - 1) \div (Len(g[2]) * Len(g[3]))) + 1],
      g[2][(((k - 1) \div Len(g[3])) % Len(g[2])) + 1],
      g[3][((k - 1) % Len(g[3])) + 1]>>
TripleOf(rec) == <<rec.n_topics, rec.alpha, rec.beta>>
MaxCoherence(log) ==
    CHOOSE m \in {log[k].coherence_score : k \in DOMAIN log} :
        \A k \in DOMAIN log : log[k].coherence_score <= m
FirstBest(log) ==
    CHOOSE k \in DOMAIN log :
        /\ log[k].coherence_score = MaxCoherence(log)
        /\ \A j \in 1..(k - 1) : log[j].coherence_score < MaxCoherence(log)

\* C1: after a grid_search call that logged at least one trial, best_score
\* is the maximum coherence_score of self.scores and best_params/best_model
\* are those of the first record of self.scores that attains it.
C1_BestIsMaxOfLog ==
    (IsGridSearch /\ Len(scores) >= 1) =>
        /\ best_score = MaxCoherence(scores)
        /\ best_params = TripleOf(scores[FirstBest(scores)])
        /\ best_model = best_params

\* C2: a grid_search call with an empty axis logs no trial, fits no model
\* and leaves the Best-Trial State at the sentinel (-1, unset, unset).
C2_EmptyGridLeavesSentinel ==
    (IsGridSearch /\ GridSize(result.args) = 0) =>
        /\ scores = <<>>
        /\ result.fits = 0
        /\ best_score = -1
        /\ best_params = None
        /\ best_model = None

\* C3: grid_search fits one model per triple of n_topics x alphas x betas,
\* in the order topic count outermost, alpha middle, beta innermost, and
\* stops early only when a fit raises: the k-th record carries the k-th
\* triple, and when every fit succeeds the log has |n_topics|*|alphas|*|betas|
\* records, one fit each.
C3_ExhaustiveInOrder ==
    IsGridSearch =>
        LET g == result.args IN
        /\ \A k \in 1..Len(scores) :
              /\ k <= GridSize(g)
              /\ TripleOf(scores[k]) = KthTriple(g, k)
              /\ scores[k].coherence_score = fitter[KthTriple(g, k)].coherence
        /\ result.raised = "" => /\ Len(scores) = GridSize(g)
                                 /\ result.fits = GridSize(g)
        /\ result.raised # "" => /\ result.fits = Len(scores) + 1
                                 /\ result.fits <= GridSize(g)
                                 /\ ~fitter[KthTriple(g, result.fits)].ok
        /\ (\A k \in 1..GridSize(g) : fitter[KthTriple(g, k)].ok)
              => result.raised = ""
C3_Witness ==
    /\ IsGridSearch
    /\ result.raised = ""
    /\ AxisLens(result.args) = <<2, 2, 2>>
    /\ Len(scores) = 8

\* C8: grid_search returns the trial log of the call, the sequence it
\* stores as self.scores.
C8_ReturnsTrialLog ==
    (IsGridSearch /\ result.raised = "") => result.ret = Some(scores)

\* C4: time_slicer returns (and caches) one entry per year batch, in the
\* order of year_batches, the i-th being the number of documents whose year
\* is in batch i; a document whose year is in no batch is counted nowhere.
DocsIn(batch) == {d \in DOMAIN dates : dates[d][1] \in Range(batch)}
C4_SliceCounts ==
    result.op = "time_slicer" =>
        LET year_batches == result.args
            slices == result.ret[1]
        IN /\ result.raised = ""
           /\ time_slice = result.ret
           /\ Len(slices) = Len(year_batches)
           /\ \A i \in 1..Len(year_batches) :
                 slices[i] = Cardinality(DocsIn(year_batches[i]))
C4_Witness ==
    /\ result.op = "time_slicer"
    /\ dates = ExampleDates
    /\ result.args = ExampleBatches
    /\ result.ret = Some(<<2, 1>>)
    /\ Len(dates) = 4

\* C5: build_best_model with best_params unset raises the not-configured
\* exception, fits nothing and writes nothing; with best_params set it does
\* not raise that exception.
C5_BuildNeedsBestParams ==
    result.op = "build_best_model" =>
        IF best_params = None
        THEN /\ result.raised = NotConfigured
             /\ result.fits = 0
             /\ result.writes = <<>>
             /\ result.ret = None
        ELSE result.raised # NotConfigured
C5_Witness ==
    /\ result.op = "build_best_model"
    /\ best_params = None
    /\ result.raised = NotConfigured

\* C6: DTM with the Best-Trial State unset or without a cached slice vector
\* raises the not-configured exception and writes no file.
C6_DtmNotConfigured ==
    (result.op = "DTM" /\ (best_params = None \/ time_slice = None)) =>
        /\ result.raised = NotConfigured
        /\ result.writes = <<>>

\* C7: viz raises and writes nothing for 'best' without a best model (not
\* configured), for 'simple' without a simple model (not configured) and for
\* any other selector (invalid argument); otherwise it renders the model the
\* selector names and writes its HTML file.
C7_VizSelector ==
    result.op = "viz" =>
        LET model_type == result.args IN
        IF model_type = "best" /\ best_model = None
        THEN result.raised = NotConfigured /\ result.writes = <<>>
        ELSE IF model_type = "simple" /\ simple_model = None
        THEN result.raised = NotConfigured /\ result.writes = <<>>
        ELSE IF model_type \notin {"best", "simple"}
        THEN result.raised = "ValueError" /\ result.writes = <<>>
        ELSE /\ result.raised = ""
             /\ result.writes =
                   <<<<HtmlPath(model_type),
                       <<"vis", IF model_type = "best" THEN best_model
                                ELSE simple_model>>>>>>
C7_Witness ==
    /\ result.op = "viz"
    /\ result.args = "simple"
    /\ result.raised = ""
    /\ best_model # None
    /\ best_model # simple_model

\* C9: build_best_model leaves best_params, best_score and best_model as they
\* are and, when it succeeds, returns and exports the model fitted with
\* exactly best_params; a call right after a successful call writes the
\* same files with the same content.
C9_BuildIdempotent ==
    [][result'.op = "build_best_model" =>
          /\ best_params' = best_params
          /\ best_score' = best_score
          /\ best_model' = best_model
          /\ result'.raised = "" =>
                /\ result'.fits = 1
                /\ result'.ret = Some(best_params)
                /\ result'.writes =
                      <<<<BestModelFile, best_params>>,
                        <<BestTopicsCsv, <<"Topic N", "Keywords">>,
                          <<"topics", best_params>>>>>>
          /\ (result.op = "build_best_model" /\ result.raised = "")
                => result'.writes = result.writes]_vars
C9_Witness ==
    /\ result.op = "build_best_model"
    /\ result.raised = ""
    /\ Len(result.writes) = 2
    /\ best_params[2] # best_params[3]

\* C10: when DTM fits and exports, the slice vector it fits with is the
\* cached one and is the one time_slicer computes from the year_batches
\* passed to DTM.
C10_SlicesCongruent ==
    (result.op = "DTM" /\ result.raised = "") =>
        /\ time_slice # None
        /\ result.writes[1][2][2] = time_slice[1]
        /\ time_slice[1] = TimeSlices(dates, result.args)

\* C11: DTM (fit) and DTM_upload (load) are one contract: for the same
\* sequential model, best_params and year_batches a successful call of
\* either writes the per-topic CSV files topic1..topicN, N the best topic
\* count, with the content determined by the model and the period labels,
\* and returns the sequential model.
IsCsvWrite(w) == w[1] # DtmModelFile
CsvWrites(writes) == SelectSeq(writes, IsCsvWrite)
ExpectedCsvs(seq_m, n, year_batches) ==
    [t \in 1..n |->
        <<TopicCsvPath(t),
          <<[i \in 1..Len(year_batches) |->
                <<year_batches[i][1], year_batches[i][Len(year_batches[i])]>>],
            [slice \in 1..Len(seq_m[2]) |-> <<seq_m, t - 1, slice>>]>>>>]
C11_SameExport ==
    (result.op \in {"DTM", "DTM_upload"} /\ result.raised = "") =>
        CsvWrites(result.writes) =
            ExpectedCsvs(dtm_file[1], best_params[1], result.args)
C11_ColdWarmSameContract ==
    (result.op \in {"DTM", "DTM_upload"} /\ result.raised = "") =>
        /\ C11_SameExport
        /\ result.ret = Some(dtm_file[1])

\* C12: in every reachable state best_params is unset exactly when
\* best_model is unset and exactly when best_score is the sentinel -1, and
\* no method call lowers best_score.
BestSetTogether ==
    /\ (best_params = None) <=> (best_model = None)
    /\ (best_model = None) <=> (best_score = -1)
====
